---- MODULE Spec2Model ----
(***************************************************************************)
(* Model of the GitHunt API root resolvers (src/api/schema.js): the feed   *)
(* query, the three mutations submitRepository, submitComment and vote,    *)
(* and the commentAdded subscription.  Every mutation is a promise chain;  *)
(* each link of a chain is one atomic step, and the steps of concurrent    *)
(* requests interleave freely.  The SQL models (context.Entries,           *)
(* context.Comments), the GitHub connector (context.Repositories) and the  *)
(* pubsub object are collaborators of the resolvers.                       *)
(***************************************************************************)
EXTENDS Integers, Sequences, FiniteSets, TLC

\* ------------------------------------------------------------------ bounds
\* concurrent mutation requests
MaxCalls == 2
\* rows of the entries table seen by the feed query
MaxRows == 23
\* largest offset a feed request asks for
MaxOffset == 2
\* feed limits are drawn from -MinLimit .. MaxLimit
MinLimit == 3
MaxLimit == 23

Calls == 1..MaxCalls
SubOrder == <<"s1", "s2">>     \* connections, in the order they are opened
Subs == {SubOrder[i] : i \in DOMAIN SubOrder}
Repos == {"A/A", "B/B"}
Users == {"alice", "bob"}
Contents == {"nice"}
VoteTypes == {"UP", "DOWN", "CANCEL"}

\* context.user is absent for an unauthenticated request
NoUser == "<anonymous>"
NoRepo == "<none>"
NoValue == [none |-> TRUE]

VARIABLES
    entries,      \* entries table: set of [repository_name, posted_by]
    votes,        \* votes table: set of [repository_name, username, vote_value]
    comments,     \* comments table: sequence of comment rows, id = index
    published,    \* payloads handed to pubsub.publish on COMMENT_ADDED_TOPIC
    subs,         \* commentAdded subscriptions
    calls,        \* mutation requests and their position in the promise chain
    lastVote,     \* history: the vote type each voter last cast on each entry
    feedReq,      \* arguments of the feed request
    feedOut       \* what the feed resolver handed to the store and got back

vars == <<entries, votes, comments, published, subs, calls, lastVote,
          feedReq, feedOut>>
storeVars == <<entries, votes, comments, lastVote>>
feedVars == <<feedReq, feedOut>>

\* ----------------------------------------------------------- JS numbers
\* A GraphQL Int argument is an integer, null, or undefined when omitted.
IntArg(n) == [kind |-> "int", val |-> n]
Undefined == [kind |-> "undefined", val |-> 0]
Null == [kind |-> "null", val |-> 0]

\* limit < n in JavaScript: undefined converts to NaN (every comparison is
\* false), null converts to 0.
JsLess(x, n) ==
    CASE x.kind = "int" -> x.val < n
      [] x.kind = "null" -> 0 < n
      [] OTHER -> FALSE

JsGreater(x, n) ==
    CASE x.kind = "int" -> x.val > n
      [] x.kind = "null" -> 0 > n
      [] OTHER -> FALSE

\* ----------------------------------------------------------- store
RECURSIVE SumVotes(_)
SumVotes(rows) ==
    IF rows = {} THEN 0
    ELSE LET r == CHOOSE x \in rows : TRUE
         IN r.vote_value + SumVotes(rows \ {r})

\* the derived score of an entry: sum of its vote rows
Score(vs, name) == SumVotes({v \in vs : v.repository_name = name})

HasEntry(es, name) == \E e \in es : e.repository_name = name

\* a store that takes votes and comments for any entry key
RejectsNothing(es, name) == FALSE

\* recordVote and createComment reject with UnknownEntry when the entry key
\* does not resolve
RejectsUnknownEntry(es, name) == ~HasEntry(es, name)

\* createEntry rejects a second row for a repository name (the unique key)
RejectsDuplicateKey(es, name) == HasEntry(es, name)

\* context.Entries.getByRepoFullName: the entry with its derived score
GetByRepoFullName(es, vs, name) ==
    IF HasEntry(es, name)
    THEN LET e == CHOOSE x \in es : x.repository_name = name
         IN [repository_name |-> e.repository_name,
             posted_by |-> e.posted_by,
             score |-> Score(vs, name)]
    ELSE NoValue

\* context.Entries.voteForEntry: one row per (entry, voter); a repeat vote
\* replaces the earlier row
VoteForEntry(vs, name, value, username) ==
    {v \in vs : ~(v.repository_name = name /\ v.username = username)}
        \cup {[repository_name |-> name, username |-> username,
               vote_value |-> value]}

\* context.Comments.submitComment: the inserted row, id assigned by the store
NewComment(cs, name, username, content) ==
    [id |-> Len(cs) + 1, repository_name |-> name,
     posted_by |-> username, content |-> content]

\* context.Comments.getCommentById
GetCommentById(cs, id) == cs[id]

\* the rows left after the offset
RowsAfter(rows, offset) == IF rows > offset THEN rows - offset ELSE 0

\* context.Entries.getForFeed: the page sizes the query can return.  With an
\* integer limit the page is the rows after the offset, cut at the limit;
\* what the query does with a limit that is no integer is not fixed.
GetForFeed(rows, offset, limit) ==
    IF limit.kind = "int"
    THEN {IF RowsAfter(rows, offset) < limit.val
          THEN RowsAfter(rows, offset) ELSE limit.val}
    ELSE 0..RowsAfter(rows, offset)

\* ----------------------------------------------------------- pubsub
\* pubsub.publish: the payload is pushed on the queue of every iterator
\* registered on the topic
Publish(ss, payload) ==
    [s \in Subs |->
        IF ss[s].state = "live"
        THEN [ss[s] EXCEPT !.pushQueue = Append(@, payload)]
        ELSE ss[s]]

\* ----------------------------------------------------------- resolvers
\* the authentication check left out
IsLoggedInAlways(user) == TRUE

\* !context.user
IsLoggedIn(user) == user # NoUser

\* a vote table with the sign of DOWN lost
VoteValueUnsigned(type) ==
    CASE type = "UP" -> 1
      [] type = "DOWN" -> 1
      [] type = "CANCEL" -> 0

\* { UP: 1, DOWN: -1, CANCEL: 0 }[type]
VoteValue(type) ==
    CASE type = "UP" -> 1
      [] type = "DOWN" -> -1
      [] type = "CANCEL" -> 0

\* a filter that accepts every payload
CommentFilterAll(payload, args) == TRUE

\* the withFilter predicate of Subscription.commentAdded
CommentFilter(payload, args) ==
    payload.commentAdded.repository_name = args.repoFullName

\* a payload built from the arguments of the write
CommentPayloadWritten(comment, written) == [commentAdded |-> written]

\* the payload submitComment publishes: the comment read back by id
CommentPayload(comment, written) == [commentAdded |-> comment]

\* a publish that is tried a second time
PublishCommentTwice(ss, payload) == Publish(Publish(ss, payload), payload)

\* pubsub.publish(COMMENT_ADDED_TOPIC, { commentAdded: comment })
PublishComment(ss, payload) == Publish(ss, payload)

\* const protectedLimit = (limit < 1 || limit > 20) ? 20 : limit
ProtectedLimit(limit) ==
    IF JsLess(limit, 1) \/ JsGreater(limit, 20) THEN IntArg(20) ELSE limit

\* ----------------------------------------------------------- requests
IdleCall ==
    [pc |-> "idle", op |-> "none", repoFullName |-> NoRepo, user |-> NoUser,
     type |-> "CANCEL", content |-> "", repoFound |-> "?",
     entryFound |-> "?", id |-> 0, comment |-> NoValue,
     error |-> "", value |-> NoValue]

IdleSub ==
    [state |-> "none", repoFullName |-> NoRepo, pushQueue |-> <<>>,
     delivered |-> <<>>]

Throw(c, kind) == [c EXCEPT !.pc = "failed", !.error = kind]
Return(c, v) == [c EXCEPT !.pc = "done", !.value = v]

InitStore ==
    /\ entries \in {{[repository_name |-> r, posted_by |-> "alice"] : r \in R} :
                       R \in SUBSET Repos}
    /\ votes = {}
    /\ comments = <<>>
    /\ lastVote = [k \in Repos \X (Users \cup {NoUser}) |-> "NONE"]

NoFeedOut == [called |-> FALSE, limit |-> Undefined, page |-> 0]

InitFeed ==
    /\ feedReq = [limit |-> Undefined, offset |-> 0, rows |-> 0]
    /\ feedOut = NoFeedOut

Init ==
    /\ InitStore
    /\ published = <<>>
    /\ subs = [s \in Subs |-> IdleSub]
    /\ calls = [p \in Calls |-> IdleCall]
    /\ InitFeed

\* A request arrives; slots are taken in order.
\* The resolver's synchronous part: the authentication check.
Invoke(p, op, name, user, type, content) ==
    /\ calls[p].pc = "idle"
    /\ \A q \in Calls : q < p => calls[q].pc # "idle"
    /\ LET c == [calls[p] EXCEPT !.op = op, !.repoFullName = name,
                                 !.user = user, !.type = type,
                                 !.content = content]
       IN calls' = [calls EXCEPT ![p] =
                      IF ~IsLoggedIn(user) THEN Throw(c, "NotAuthenticated")
                      ELSE [c EXCEPT !.pc =
                              CASE op = "submitRepository" -> "getRepo"
                                [] op = "submitComment" -> "createComment"
                                [] op = "vote" -> "voteForEntry"]]
    /\ UNCHANGED <<storeVars, published, subs, feedVars>>

SubmitRepositoryCall(p) ==
    \E name \in Repos, user \in Users \cup {NoUser} :
        Invoke(p, "submitRepository", name, user, "CANCEL", "")

SubmitCommentCall(p) ==
    \E name \in Repos, user \in Users \cup {NoUser}, content \in Contents :
        Invoke(p, "submitComment", name, user, "CANCEL", content)

VoteCall(p) ==
    \E name \in Repos, user \in Users \cup {NoUser}, type \in VoteTypes :
        Invoke(p, "vote", name, user, type, "")

\* context.Repositories.getByFullName(repoFullName).then(res => ...)
GetRepo(p) ==
    /\ calls[p].pc = "getRepo"
    /\ \E res \in BOOLEAN :
        calls' = [calls EXCEPT ![p] =
                    IF ~res
                    THEN Throw([@ EXCEPT !.repoFound = "no"],
                               "UnknownRepository")
                    ELSE [@ EXCEPT !.pc = "checkEntry", !.repoFound = "yes"]]
    /\ UNCHANGED <<storeVars, published, subs, feedVars>>

\* the existence check with its throw left out
CheckEntryNoThrow(p) ==
    /\ calls[p].pc = "checkEntry"
    /\ LET res == GetByRepoFullName(entries, votes, calls[p].repoFullName)
       IN calls' = [calls EXCEPT ![p] =
                      [@ EXCEPT !.pc = "createEntry",
                                !.entryFound =
                                    IF res # NoValue THEN "yes" ELSE "no"]]
    /\ UNCHANGED <<storeVars, published, subs, feedVars>>

\* context.Entries.getByRepoFullName(repoFullName).then(res => ...)
CheckEntry(p) ==
    /\ calls[p].pc = "checkEntry"
    /\ LET res == GetByRepoFullName(entries, votes, calls[p].repoFullName)
       IN calls' = [calls EXCEPT ![p] =
                      IF res # NoValue
                      THEN Throw([@ EXCEPT !.entryFound = "yes"],
                                 "DuplicateSubmission")
                      ELSE [@ EXCEPT !.pc = "createEntry",
                                     !.entryFound = "no"]]
    /\ UNCHANGED <<storeVars, published, subs, feedVars>>

\* context.Entries.submitRepository(repoFullName, context.user.login);
\* the repository name is the table's unique key
CreateEntry(p) ==
    /\ calls[p].pc = "createEntry"
    /\ IF RejectsDuplicateKey(entries, calls[p].repoFullName)
       THEN /\ calls' = [calls EXCEPT ![p] = Throw(@, "StoreError")]
            /\ UNCHANGED entries
       ELSE /\ entries' = entries \cup
                  {[repository_name |-> calls[p].repoFullName,
                    posted_by |-> calls[p].user]}
            /\ calls' = [calls EXCEPT ![p].pc = "rereadEntry"]
    /\ UNCHANGED <<votes, comments, lastVote, published, subs, feedVars>>

\* .then(() => context.Entries.getByRepoFullName(repoFullName)), the last
\* link of submitRepository and of vote
RereadEntry(p) ==
    /\ calls[p].pc = "rereadEntry"
    /\ calls' = [calls EXCEPT ![p] =
                   Return(@, GetByRepoFullName(entries, votes,
                                               calls[p].repoFullName))]
    /\ UNCHANGED <<storeVars, published, subs, feedVars>>

\* context.Entries.voteForEntry(repoFullName, voteValue, context.user.login)
VoteForEntryStep(p) ==
    /\ calls[p].pc = "voteForEntry"
    /\ IF RejectsUnknownEntry(entries, calls[p].repoFullName)
       THEN /\ calls' = [calls EXCEPT ![p] = Throw(@, "UnknownEntry")]
            /\ UNCHANGED <<votes, lastVote>>
       ELSE /\ votes' = VoteForEntry(votes, calls[p].repoFullName,
                                     VoteValue(calls[p].type), calls[p].user)
            /\ lastVote' = [lastVote EXCEPT
                  ![<<calls[p].repoFullName, calls[p].user>>] = calls[p].type]
            /\ calls' = [calls EXCEPT ![p].pc = "rereadEntry"]
    /\ UNCHANGED <<entries, comments, published, subs, feedVars>>

\* context.Comments.submitComment(repoFullName, context.user.login, content)
CreateComment(p) ==
    /\ calls[p].pc = "createComment"
    /\ IF RejectsUnknownEntry(entries, calls[p].repoFullName)
       THEN /\ calls' = [calls EXCEPT ![p] = Throw(@, "UnknownEntry")]
            /\ UNCHANGED comments
       ELSE /\ comments' = Append(comments,
                  NewComment(comments, calls[p].repoFullName, calls[p].user,
                             calls[p].content))
            /\ calls' = [calls EXCEPT ![p].pc = "getCommentById",
                                      ![p].id = Len(comments) + 1]
    /\ UNCHANGED <<entries, votes, lastVote, published, subs, feedVars>>

\* a chain that publishes what it has when the read rejects
RereadCommentCaught(p) ==
    /\ calls[p].pc = "getCommentById"
    /\ \E ok \in BOOLEAN :
        calls' = [calls EXCEPT ![p] =
                    [@ EXCEPT !.pc = "publish",
                              !.comment =
                                  IF ok
                                  THEN GetCommentById(comments, calls[p].id)
                                  ELSE NoValue]]
    /\ UNCHANGED <<storeVars, published, subs, feedVars>>

\* .then(([id]) => context.Comments.getCommentById(id)); the read may reject
RereadComment(p) ==
    /\ calls[p].pc = "getCommentById"
    /\ \E ok \in BOOLEAN :
        calls' = [calls EXCEPT ![p] =
                    IF ok
                    THEN [@ EXCEPT !.pc = "publish",
                                   !.comment = GetCommentById(comments, calls[p].id)]
                    ELSE Throw(@, "StoreError")]
    /\ UNCHANGED <<storeVars, published, subs, feedVars>>

\* .then((comment) => { pubsub.publish(...); return comment; })
PublishStep(p) ==
    /\ calls[p].pc = "publish"
    /\ LET c == calls[p]
           written == [id |-> 0, repository_name |-> c.repoFullName,
                       posted_by |-> c.user, content |-> c.content]
           payload == CommentPayload(c.comment, written)
       IN /\ published' = Append(published, payload)
          /\ subs' = PublishComment(subs, payload)
          /\ calls' = [calls EXCEPT ![p] = Return(@, c.comment)]
    /\ UNCHANGED <<storeVars, feedVars>>

\* a client opens a commentAdded subscription: pubsub.asyncIterator(topic)
Subscribe(s) ==
    /\ subs[s].state = "none"
    /\ \A i, j \in DOMAIN SubOrder :
          (i < j /\ SubOrder[j] = s) => subs[SubOrder[i]].state # "none"
    /\ \E name \in Repos :
        subs' = [subs EXCEPT ![s].state = "live", ![s].repoFullName = name]
    /\ UNCHANGED <<storeVars, published, calls, feedVars>>

\* the client pulls the next event: the oldest queued payload is taken and
\* is yielded only when the filter accepts it
NextEvent(s) ==
    /\ subs[s].state = "live"
    /\ subs[s].pushQueue # <<>>
    /\ LET payload == Head(subs[s].pushQueue)
       IN subs' = [subs EXCEPT
                     ![s].pushQueue = Tail(@),
                     ![s].delivered =
                        IF CommentFilter(payload,
                                         [repoFullName |-> subs[s].repoFullName])
                        THEN Append(@, payload.commentAdded)
                        ELSE @]
    /\ UNCHANGED <<storeVars, published, calls, feedVars>>

\* the connection closes: the iterator returns, its queue is emptied and the
\* client's sequence ends
Unsubscribe(s) ==
    /\ subs[s].state = "live"
    /\ subs' = [subs EXCEPT ![s] = [IdleSub EXCEPT !.state = "closed"]]
    /\ UNCHANGED <<storeVars, published, calls, feedVars>>

\* the mutation requests and the links of their chains
MutationStep(p) ==
    \/ SubmitRepositoryCall(p)
    \/ SubmitCommentCall(p)
    \/ VoteCall(p)
    \/ GetRepo(p)
    \/ CheckEntry(p)
    \/ CreateEntry(p)
    \/ RereadEntry(p)
    \/ VoteForEntryStep(p)
    \/ CreateComment(p)
    \/ RereadComment(p)
    \/ PublishStep(p)

\* submitComment requests alone
CommentStep(p) ==
    \/ SubmitCommentCall(p)
    \/ CreateComment(p)
    \/ RereadComment(p)
    \/ PublishStep(p)

SubscriptionStep(s) ==
    \/ Subscribe(s)
    \/ NextEvent(s)
    \/ Unsubscribe(s)

Next == \E p \in Calls : MutationStep(p)

\* the mutations racing with each other
Spec == Init /\ [][Next]_vars

NextSubscriptions ==
    \/ \E p \in Calls : CommentStep(p)
    \/ \E s \in Subs : SubscriptionStep(s)

\* submitComment requests racing with commentAdded subscriptions
SpecSubscriptions == Init /\ [][NextSubscriptions]_vars

\* ----------------------------------------------------------- feed
LimitArgs == {IntArg(n) : n \in (0 - MinLimit)..MaxLimit} \cup {Undefined, Null}

InitFeedRequest ==
    /\ entries = {}
    /\ votes = {}
    /\ comments = <<>>
    /\ lastVote = [k \in Repos \X (Users \cup {NoUser}) |-> "NONE"]
    /\ published = <<>>
    /\ subs = [s \in Subs |-> IdleSub]
    /\ calls = [p \in Calls |-> IdleCall]
    /\ feedReq \in [limit : LimitArgs, offset : 0..MaxOffset, rows : 0..MaxRows]
    /\ feedOut = NoFeedOut

\* Query.feed (the sort order plays no part in the window)
Feed ==
    /\ ~feedOut.called
    /\ LET protectedLimit == ProtectedLimit(feedReq.limit)
       IN \E page \in GetForFeed(feedReq.rows, feedReq.offset, protectedLimit) :
            feedOut' = [called |-> TRUE, limit |-> protectedLimit,
                        page |-> page]
    /\ UNCHANGED <<storeVars, published, subs, calls, feedReq>>

NextFeed == Feed

\* one feed request over a table of any size
SpecFeed == InitFeedRequest /\ [][NextFeed]_vars

\* ================================================================ claims

\* C1: whatever limit the caller supplies, or none, the limit handed to the
\* store's feed query is an integer in 1..20: a requested value <= 0 or > 20
\* becomes 20, a value in 1..20 is passed through, and the page never holds
\* more than 20 entries.
C1_LimitClamped ==
    feedOut.called =>
        /\ feedOut.limit.kind = "int"
        /\ feedOut.limit.val \in 1..20
        /\ (feedReq.limit.kind = "int" /\ feedReq.limit.val \in 1..20)
              => feedOut.limit = feedReq.limit
        /\ (feedReq.limit.kind = "int" /\ feedReq.limit.val \notin 1..20)
              => feedOut.limit = IntArg(20)
        /\ feedOut.page <= 20

\* C2: every comment delivered to a live commentAdded subscription registered
\* for repository R has repository name R.
C2_DeliveredMatchFilter ==
    \A s \in Subs :
        subs[s].state = "live" =>
            \A i \in DOMAIN subs[s].delivered :
                subs[s].delivered[i].repository_name = subs[s].repoFullName

\* two live subscriptions, on "A/A" and on "B/B"; a comment on "A/A" was
\* published to both queues, the first was handed it and the second consumed
\* it without being handed anything
C2_Witness ==
    /\ subs["s1"].state = "live" /\ subs["s1"].repoFullName = "A/A"
    /\ subs["s2"].state = "live" /\ subs["s2"].repoFullName = "B/B"
    /\ Len(published) = 1
    /\ published[1].commentAdded.repository_name = "A/A"
    /\ subs["s1"].delivered = <<published[1].commentAdded>>
    /\ subs["s1"].pushQueue = <<>>
    /\ subs["s2"].delivered = <<>>
    /\ subs["s2"].pushQueue = <<>>
    /\ \E p \in Calls : calls[p].pc = "done" /\ calls[p].repoFullName = "A/A"

\* the step taken is a step of request p
StepOf(p) == calls'[p] # calls[p]

Effects == <<entries, votes, comments, published>>

\* C3: a mutation invoked with no authenticated caller fails with
\* NotAuthenticated and has no effect: entries, votes, comments (and with them
\* every score) stay as they were and no commentAdded event is published.
C3_UnauthenticatedNoEffect ==
    /\ [](\A p \in Calls :
            (calls[p].pc # "idle" /\ calls[p].user = NoUser) =>
                (calls[p].pc = "failed" /\ calls[p].error = "NotAuthenticated"))
    /\ [][\A p \in Calls :
            (StepOf(p) /\ calls'[p].user = NoUser) => UNCHANGED Effects]_vars

\* a vote and a submitComment have been invoked without a caller identity on
\* an entry the store holds
C3_Witness ==
    \E p, q \in Calls :
        /\ calls[p].op = "vote" /\ calls[q].op = "submitComment"
        /\ calls[p].user = NoUser /\ calls[q].user = NoUser
        /\ calls[p].pc = "failed" /\ calls[q].pc = "failed"
        /\ HasEntry(entries, calls[p].repoFullName)
        /\ HasEntry(entries, calls[q].repoFullName)

InFlight(c) == c.pc \notin {"idle", "done", "failed"}

FailedWith(c, kind) == c.pc = "failed" /\ c.error = kind

EntryRow(c) == [repository_name |-> c.repoFullName, posted_by |-> c.user]

\* C4: submitRepository by an authenticated caller fails with
\* UnknownRepository when the directory does not confirm the name and with
\* DuplicateSubmission when the existence check finds an Entry; in both cases
\* no Entry is created and no Vote or Comment state is altered.  An Entry is
\* created only by a request whose two precondition checks have passed.
C4_SubmitPreconditions ==
    /\ [](\A p \in Calls :
            calls[p].op = "submitRepository" =>
                /\ calls[p].repoFound = "no" =>
                      FailedWith(calls[p], "UnknownRepository")
                /\ calls[p].entryFound = "yes" =>
                      FailedWith(calls[p], "DuplicateSubmission")
                /\ calls[p].pc \in {"createEntry", "rereadEntry", "done"} =>
                      (calls[p].repoFound = "yes" /\ calls[p].entryFound = "no"))
    /\ [][\A p \in Calls :
            (StepOf(p) /\ calls'[p].op = "submitRepository") =>
                /\ UNCHANGED <<votes, comments, published>>
                /\ (calls[p].pc = "checkEntry"
                      /\ HasEntry(entries, calls[p].repoFullName)) =>
                      FailedWith(calls'[p], "DuplicateSubmission")
                /\ calls'[p].error \in {"UnknownRepository",
                                        "DuplicateSubmission"} =>
                      UNCHANGED entries
                /\ entries' # entries =>
                      /\ calls[p].repoFound = "yes"
                      /\ calls[p].entryFound = "no"
                      /\ entries' = entries \cup {EntryRow(calls[p])}]_vars

\* one request was refused by the directory, another by the existence check
C4_Witness ==
    \E p, q \in Calls :
        /\ calls[p].op = "submitRepository"
        /\ calls[q].op = "submitRepository"
        /\ FailedWith(calls[p], "UnknownRepository")
        /\ FailedWith(calls[q], "DuplicateSubmission")
        /\ calls[q].repoFound = "yes"

\* a request has finished, with a result or with an error
Finished(c) == c.pc \in {"done", "failed"}

\* C10: for any interleaving of concurrent submitRepository calls for one
\* repository name the directory confirms, at most one Entry is created: no
\* call's existence check and creation fall between the existence check and
\* the creation of another, and every call but one fails with
\* DuplicateSubmission.
C10_AtMostOneEntry ==
    /\ \A r \in Repos :
          Cardinality({e \in entries : e.repository_name = r}) <= 1
    /\ \A p \in Calls :
          calls[p].pc = "createEntry" => ~HasEntry(entries, calls[p].repoFullName)
    /\ \A p, q \in Calls :
          (/\ p # q
           /\ calls[p].op = "submitRepository" /\ calls[q].op = "submitRepository"
           /\ calls[p].repoFullName = calls[q].repoFullName
           /\ calls[p].repoFound = "yes" /\ calls[q].repoFound = "yes"
           /\ Finished(calls[p]) /\ Finished(calls[q]))
          => (\/ FailedWith(calls[p], "DuplicateSubmission")
              \/ FailedWith(calls[q], "DuplicateSubmission"))

\* the value the claim gives a vote type; a voter who never voted counts 0
LastValue(type) ==
    CASE type = "UP" -> 1
      [] type = "DOWN" -> 0 - 1
      [] OTHER -> 0

RECURSIVE SumLast(_, _)
SumLast(name, voters) ==
    IF voters = {} THEN 0
    ELSE LET u == CHOOSE x \in voters : TRUE
         IN LastValue(lastVote[<<name, u>>]) + SumLast(name, voters \ {u})

\* C6: after any sequence of authenticated votes, each entry's score is the
\* sum over voters of the value of that voter's last vote on the entry
\* (UP 1, DOWN -1, CANCEL 0): a repeat vote replaces the earlier one.
C6_ScoreIsSumOfLastVotes ==
    \A r \in Repos :
        /\ Score(votes, r) = SumLast(r, Users \cup {NoUser})
        /\ HasEntry(entries, r) =>
              GetByRepoFullName(entries, votes, r).score =
                  SumLast(r, Users \cup {NoUser})

\* one voter voted UP, read the entry back with score 1, then voted DOWN on
\* the same entry, which now scores -1
C6_Witness ==
    \E p, q \in Calls :
        /\ calls[p].op = "vote" /\ calls[q].op = "vote"
        /\ calls[p].user = calls[q].user
        /\ calls[p].repoFullName = calls[q].repoFullName
        /\ calls[p].type = "UP" /\ calls[q].type = "DOWN"
        /\ calls[p].pc = "done" /\ calls[q].pc = "done"
        /\ calls[p].value.score = 1
        /\ Score(votes, calls[p].repoFullName) = 0 - 1

PublishedAt(id) ==
    {i \in DOMAIN published :
        published[i].commentAdded # NoValue /\ published[i].commentAdded.id = id}

CommentCalls == {p \in Calls : calls[p].op = "submitComment"}

RECURSIVE SelectRepo(_, _)
\* the comments of a sequence of payloads that a filter on `name` accepts
SelectRepo(payloads, name) ==
    IF payloads = <<>> THEN <<>>
    ELSE LET rest == SelectRepo(Tail(payloads), name)
         IN IF Head(payloads).commentAdded.repository_name = name
            THEN <<Head(payloads).commentAdded>> \o rest
            ELSE rest

\* C8: for any interleaving of submitComment calls, each live subscriber is
\* handed the events of its repository in the order they were published, none
\* twice and none skipped: what it was handed, followed by what its queue
\* still holds for it, is the run of matching events published since some
\* point, and no event was published twice.
C8_FifoPerSubscriber ==
    /\ \A i, j \in DOMAIN published : i # j => published[i] # published[j]
    /\ \A s \in Subs :
          subs[s].state = "live" =>
              \E k \in 0..Len(published) :
                  subs[s].delivered
                        \o SelectRepo(subs[s].pushQueue, subs[s].repoFullName)
                    = SelectRepo(SubSeq(published, k + 1, Len(published)),
                                 subs[s].repoFullName)

\* two concurrent comments on one repository were published in the reverse
\* of the order they were created, and a live subscriber was handed both, in
\* publication order
C8_Witness ==
    \E s \in Subs :
        /\ subs[s].state = "live"
        /\ Len(published) = 2
        /\ published[1].commentAdded.id = 2
        /\ published[2].commentAdded.id = 1
        /\ subs[s].delivered =
              <<published[1].commentAdded, published[2].commentAdded>>

\* C9: in submitComment the steps occur in the order create, reread by id,
\* publish, return: every published event carries the comment as the store
\* holds it under its id, no publish precedes the comment's creation, and the
\* value returned is the comment that was published.
C9_PublishesRereadComment ==
    /\ \A i \in DOMAIN published :
          LET c == published[i].commentAdded
          IN /\ c # NoValue
             /\ c.id \in DOMAIN comments
             /\ c = GetCommentById(comments, c.id)
    /\ \A p \in CommentCalls :
          /\ calls[p].pc = "createComment" => calls[p].id = 0
          /\ calls[p].pc = "getCommentById" =>
                /\ calls[p].id \in DOMAIN comments
                /\ calls[p].comment = NoValue
                /\ PublishedAt(calls[p].id) = {}
          /\ calls[p].pc = "publish" =>
                /\ calls[p].comment = GetCommentById(comments, calls[p].id)
                /\ PublishedAt(calls[p].id) = {}
          /\ calls[p].pc = "done" =>
                /\ calls[p].value = GetCommentById(comments, calls[p].id)
                /\ \E i \in DOMAIN published :
                      published[i].commentAdded = calls[p].value

\* a submitComment has returned the comment it published, and another has
\* read its comment back and not yet published it
C9_Witness ==
    \E p, q \in CommentCalls :
        /\ calls[p].pc = "done"
        /\ calls[p].value = comments[calls[p].id]
        /\ PublishedAt(calls[p].id) # {}
        /\ calls[q].pc = "publish"

====
